---- MODULE Spec2Model ----
(***************************************************************************)
(* Model of api/market-overview.js: the market-overview handler with its   *)
(* single-slot response cache, the CoinGecko orchestration it runs on a    *)
(* cache miss, and the pure helpers (safeNumber, median, computeMood,      *)
(* computeAdjacentStates, computeTop3Snapshot, buildCoinsRowFromTop3), and *)
(* of api/coin-tickers.js: the handler that filters, sorts and truncates   *)
(* the exchange tickers of one coin.                                       *)
(*                                                                         *)
(* JavaScript values are records [k |-> kind, v |-> payload].  A number    *)
(* is kept exactly, as an integer count of 1/Scale units, inside the       *)
(* finite range of the model's doubles (+-DblMax); a result outside that   *)
(* range overflows to +-Infinity as IEEE-754 arithmetic does, and          *)
(* Infinity - Infinity is NaN.  Rounding error of binary64 inside the      *)
(* finite range is not modelled.                                           *)
(***************************************************************************)
EXTENDS Integers, Sequences, FiniteSets, TLC

\* ------------------------------------------------------------- bounds
\* longest asset list the listings resource returns in the model
MaxAssets == 2
\* largest finite double of the model, in whole units (stands for 1.79e308)
DblMax == 1000
\* number of requests the process receives
MaxReq == 2
\* number of times the clock advances
MaxTicks == 2
\* longest asset list computeTop3Snapshot is called on
MaxListing == 4
\* longest ticker list the upstream returns
MaxTickers == 7

RECURSIVE Factorial(_)
Factorial(n) == IF n <= 1 THEN 1 ELSE n * Factorial(n - 1)

\* Units per 1.0: every quotient the code forms (up/n, x*0.5, x*1.5, the
\* mean of two) is then an integer count of units.
Scale == 4 * Factorial(MaxAssets)
DblMaxS == DblMax * Scale
\* A finite double three quarters of the largest (1.35e308 for binary64):
\* a small number added to it leaves it finite, its double and its product
\* with 1.5 overflow.
Huge == (3 * DblMax) \div 4

\* -------------------------------------------------- JavaScript values
Undefined == [k |-> "undefined", v |-> 0]
Null == [k |-> "null", v |-> 0]
NaN == [k |-> "nan", v |-> 0]
PosInf == [k |-> "inf", v |-> 1]
NegInf == [k |-> "inf", v |-> -1]
NonNumeric == [k |-> "string", v |-> 0]
\* the number i (whole units) and the number of s scaled units
Num(i) == [k |-> "num", v |-> i * Scale]
Fin(s) == [k |-> "num", v |-> s]

IsNumberKind(x) == x.k \in {"num", "inf", "nan"}
\* Number.isFinite on a value that is already a number
IsFinite(x) == x.k = "num"
IsNullish(x) == x.k \in {"null", "undefined"}

\* a finite result, or the infinity it overflows to
Saturate(s) == IF s > DblMaxS THEN PosInf ELSE IF s < -DblMaxS THEN NegInf ELSE Fin(s)

\* Number(x): null is 0, undefined and a non-numeric string are NaN
ToNumber(x) ==
  CASE x.k = "null" -> Fin(0)
    [] x.k \in {"undefined", "string"} -> NaN
    [] OTHER -> x

Neg(x) == IF x.k = "nan" THEN NaN ELSE [k |-> x.k, v |-> -x.v]

Add(x, y) ==
  CASE x.k = "nan" \/ y.k = "nan" -> NaN
    [] x.k = "inf" /\ y.k = "inf" -> IF x.v = y.v THEN x ELSE NaN
    [] x.k = "inf" -> x
    [] y.k = "inf" -> y
    [] OTHER -> Saturate(x.v + y.v)

Sub(x, y) == Add(x, Neg(y))

\* x * (p/q) for a positive constant p/q
MulConst(x, p, q) ==
  CASE x.k = "nan" -> NaN
    [] x.k = "inf" -> x
    [] OTHER -> Saturate((x.v * p) \div q)

\* the order of the extended reals, NaN excluded
Ord(x) == IF x.k = "inf" THEN x.v * (DblMaxS + 1) ELSE x.v

\* x > y and x >= y of JavaScript: false when either side is NaN
Gt(x, y) ==
  LET a == ToNumber(x)
      b == ToNumber(y)
  IN a.k # "nan" /\ b.k # "nan" /\ Ord(a) > Ord(b)

Ge(x, y) ==
  LET a == ToNumber(x)
      b == ToNumber(y)
  IN a.k # "nan" /\ b.k # "nan" /\ Ord(a) >= Ord(b)

\* Math.max and Math.min: NaN if either argument is NaN
MathMax(x, y) ==
  IF x.k = "nan" \/ y.k = "nan" THEN NaN ELSE IF Ord(x) >= Ord(y) THEN x ELSE y

MathMin(x, y) ==
  IF x.k = "nan" \/ y.k = "nan" THEN NaN ELSE IF Ord(x) <= Ord(y) THEN x ELSE y

\* Math.round: the nearest integer, halves towards +Infinity
MathRound(x) ==
  IF x.k # "num" THEN x ELSE Fin(((2 * x.v + Scale) \div (2 * Scale)) * Scale)

\* x ?? d
Coalesce(x, d) == IF IsNullish(x) THEN d ELSE x

\* const x = e; F(x): e is evaluated once and F reads its value
Let(e, F(_)) == CHOOSE y \in {F(x) : x \in {e}} : TRUE

\* ----------------------------------------------------- safeNumber, median
safeNumber(n) ==
  LET x == ToNumber(n)
  IN IF IsFinite(x) THEN x ELSE Null

RECURSIVE Insert(_, _)
Insert(x, s) ==
  IF s = <<>> THEN <<x>>
  ELSE IF Ord(x) <= Ord(Head(s)) THEN <<x>> \o s
  ELSE <<Head(s)>> \o Insert(x, Tail(s))

RECURSIVE SortAscending(_)
SortAscending(s) == IF s = <<>> THEN <<>> ELSE Insert(Head(s), SortAscending(Tail(s)))

RECURSIVE FilterFinite(_)
FilterFinite(s) ==
  IF s = <<>> THEN <<>>
  ELSE LET x == ToNumber(Head(s))
       IN (IF IsFinite(x) THEN <<x>> ELSE <<>>) \o FilterFinite(Tail(s))

\* the midpoint of a sorted array of finite numbers, null if it is empty
Midpoint(arr) ==
  LET mid == Len(arr) \div 2
  IN IF Len(arr) = 0 THEN Null
     ELSE IF Len(arr) % 2 = 0 THEN MulConst(Add(arr[mid], arr[mid + 1]), 1, 2)
     ELSE arr[mid + 1]

median(values) == Let(SortAscending(FilterFinite(values)), LAMBDA arr : Midpoint(arr))

\* ------------------------------------------------------ JSON shapes
Str(s) == [k |-> "str", v |-> s]
\* a JSON array holding the sequence s
Arr(s) == [k |-> "array", v |-> s]
\* markets || [] : a missing (null, undefined) list is the empty list
ArrayOrEmpty(m) == IF m.k = "array" THEN m.v ELSE <<>>
EmptyObject == <<>>

\* one entry of the listings resource; an absent field is Undefined
Asset(id, c24, c7, c30) ==
  [id |-> id, name |-> Str(id), symbol |-> Str(id),
   current_price |-> Num(1), market_cap |-> Num(1),
   price_change_percentage_24h_in_currency |-> c24,
   price_change_percentage_7d_in_currency |-> c7,
   price_change_percentage_30d_in_currency |-> c30]

\* the global-stats body: { data: { market_cap_change_percentage_24h_usd } },
\* or the field at the top level, or neither
GlobalNested(x) ==
  [k |-> "object",
   data |-> [k |-> "object", market_cap_change_percentage_24h_usd |-> x],
   market_cap_change_percentage_24h_usd |-> Undefined]
GlobalFlat(x) ==
  [k |-> "object", data |-> Undefined, market_cap_change_percentage_24h_usd |-> x]
GlobalEmpty == GlobalFlat(Undefined)

\* globalJson?.data?.market_cap_change_percentage_24h_usd
NestedMcap(g) ==
  IF g.k # "object" THEN Undefined
  ELSE IF g.data.k # "object" THEN Undefined
  ELSE g.data.market_cap_change_percentage_24h_usd
\* globalJson?.market_cap_change_percentage_24h_usd
FlatMcap(g) ==
  IF g.k # "object" THEN Undefined ELSE g.market_cap_change_percentage_24h_usd

\* ------------------------------------------------------------ computeMood
\* number of entries of arr whose field f, with missing read as -999, is > 0
CountUp(arr, f) ==
  Cardinality({i \in 1..Len(arr) : Gt(Coalesce(arr[i][f], Num(-999)), Num(0))})

\* arr.find((c) => c.id === "bitcoin"): the first such entry, else undefined
FindBitcoin30d(arr) ==
  LET hits == {i \in 1..Len(arr) : arr[i].id = "bitcoin"}
  IN IF hits = {} THEN Undefined
     ELSE LET first == CHOOSE i \in hits : \A j \in hits : i <= j
          IN arr[first].price_change_percentage_30d_in_currency

RECURSIVE Alt30dValues(_)
Alt30dValues(arr) ==
  IF arr = <<>> THEN <<>>
  ELSE (IF Head(arr).id # "bitcoin"
        THEN <<Head(arr).price_change_percentage_30d_in_currency>>
        ELSE <<>>) \o Alt30dValues(Tail(arr))

\* Number(x.toFixed(2)) of up/n, kept as a count of hundredths
Fixed2(up, n) == [k |-> "centi", v |-> (200 * up + n) \div (2 * n)]

\* mutant: the last branch is missing, so the initial "uneasy" is returned
StateOfScoreNoElse(score) ==
  IF Ge(score, Num(75)) THEN [state |-> "snack-mode", label |-> "Snack Mode"]
  ELSE IF Ge(score, Num(60)) THEN [state |-> "steady-bite", label |-> "Steady Bite"]
  ELSE IF Ge(score, Num(45)) THEN [state |-> "side-eye", label |-> "Side-Eye"]
  ELSE IF Ge(score, Num(30))
    THEN [state |-> "clutching-cookies", label |-> "Clutching Cookies"]
  ELSE [state |-> "uneasy", label |-> "Uneasy"]

\* mutant: the thresholds are exclusive
StateOfScoreExclusive(score) ==
  IF Gt(score, Num(75)) THEN [state |-> "snack-mode", label |-> "Snack Mode"]
  ELSE IF Gt(score, Num(60)) THEN [state |-> "steady-bite", label |-> "Steady Bite"]
  ELSE IF Gt(score, Num(45)) THEN [state |-> "side-eye", label |-> "Side-Eye"]
  ELSE IF Gt(score, Num(30))
    THEN [state |-> "clutching-cookies", label |-> "Clutching Cookies"]
  ELSE [state |-> "crumbs-everywhere", label |-> "Crumbs Everywhere"]

\* score -> themed state, by descending threshold
StateOfScore(score) ==
  IF Ge(score, Num(75)) THEN [state |-> "snack-mode", label |-> "Snack Mode"]
  ELSE IF Ge(score, Num(60)) THEN [state |-> "steady-bite", label |-> "Steady Bite"]
  ELSE IF Ge(score, Num(45)) THEN [state |-> "side-eye", label |-> "Side-Eye"]
  ELSE IF Ge(score, Num(30))
    THEN [state |-> "clutching-cookies", label |-> "Clutching Cookies"]
  ELSE [state |-> "crumbs-everywhere", label |-> "Crumbs Everywhere"]

\* Math.max(0, Math.min(100, Math.round(score)))
ClampScore(raw) == MathMax(Num(0), MathMin(Num(100), MathRound(raw)))

\* btc30d - medianAlt30d, or null if either is null
LeadershipGap(btc30d, medianAlt30d) ==
  IF btc30d # Null /\ medianAlt30d # Null THEN Sub(btc30d, medianAlt30d) ELSE Null

\* the figures the score is blended from
MoodSignals(arr, globalJson) ==
  Let(safeNumber(FindBitcoin30d(arr)), LAMBDA b :
  Let(median(Alt30dValues(arr)), LAMBDA md :
    [up24h |-> CountUp(arr, "price_change_percentage_24h_in_currency"),
     up7d |-> CountUp(arr, "price_change_percentage_7d_in_currency"),
     btc30d |-> b,
     medianAlt30d |-> md,
     leadershipGap30d |-> LeadershipGap(b, md),
     mcapChange24h |-> Coalesce(safeNumber(NestedMcap(globalJson)),
                                safeNumber(FlatMcap(globalJson)))]))

\* let score = 50; ... the blend, before it is rounded and clamped
RawScore(n, sig) ==
  LET pctUp24h == Fin((sig.up24h * Scale) \div n)
      pctUp7d == Fin((sig.up7d * Scale) \div n)
      half == Fin(Scale \div 2)
      s1 == Add(Num(50), MulConst(Sub(pctUp24h, half), 40, 1))
      s2 == Add(s1, MulConst(Sub(pctUp7d, half), 40, 1))
      s3 == IF sig.leadershipGap30d # Null
            THEN Sub(s2, MulConst(MathMax(Num(0), sig.leadershipGap30d), 1, 2))
            ELSE s2
  IN IF sig.mcapChange24h # Null
     THEN Add(s3, MulConst(sig.mcapChange24h, 3, 2))
     ELSE s3

MoodOfScore(n, sig, score) ==
  [state |-> StateOfScore(score).state,
   label |-> StateOfScore(score).label,
   score |-> score,
   metrics |-> [pctUp24h |-> Fixed2(sig.up24h, n),
                pctUp7d |-> Fixed2(sig.up7d, n),
                btc30d |-> sig.btc30d,
                medianAlt30d |-> sig.medianAlt30d,
                leadershipGap30d |-> sig.leadershipGap30d,
                marketCapChange24hPct |-> sig.mcapChange24h]]

\* the mood of a non-empty list: signals, blend, clamp, themed state
MoodOfList(arr, globalJson) ==
  Let(MoodSignals(arr, globalJson), LAMBDA sig :
  Let(RawScore(Len(arr), sig), LAMBDA raw :
  Let(ClampScore(raw), LAMBDA score :
    MoodOfScore(Len(arr), sig, score))))

\* mutant: the empty-list guard is missing, so 0/0 makes the score NaN and
\* the state that of the last branch
computeMoodNoGuard(markets, globalJson) ==
  Let(ArrayOrEmpty(markets), LAMBDA arr :
    IF Len(arr) = 0
    THEN [state |-> "crumbs-everywhere", label |-> "Crumbs Everywhere", score |-> NaN,
          metrics |-> [pctUp24h |-> NaN, pctUp7d |-> NaN, btc30d |-> Null,
                       medianAlt30d |-> Null, leadershipGap30d |-> Null,
                       marketCapChange24hPct |-> Null]]
    ELSE MoodOfList(arr, globalJson))

computeMood(markets, globalJson) ==
  Let(ArrayOrEmpty(markets), LAMBDA arr :
    IF Len(arr) = 0
    THEN [state |-> "unknown", label |-> "Unknown", score |-> Null,
          metrics |-> EmptyObject]
    ELSE MoodOfList(arr, globalJson))

\* ---------------------------------------------------- computeAdjacentStates
states ==
  <<"crumbs-everywhere", "clutching-cookies", "side-eye", "steady-bite", "snack-mode">>

\* states[i] ?? null, for a 1-based index i that may fall outside the array
StateAtOrNull(i) == IF i \in 1..Len(states) THEN Str(states[i]) ELSE Null

\* mutant: the order is walked as a ring, the last state before the first
computeAdjacentStatesRing(state) ==
  LET hits == {i \in 1..Len(states) : states[i] = state}
  IN IF hits = {} THEN [prev |-> Null, next |-> Null]
     ELSE LET i == CHOOSE j \in hits : \A h \in hits : j <= h
          IN [prev |-> Str(states[((i + Len(states) - 2) % Len(states)) + 1]),
              next |-> Str(states[(i % Len(states)) + 1])]

computeAdjacentStates(state) ==
  LET hits == {i \in 1..Len(states) : states[i] = state}
  IN IF hits = {} THEN [prev |-> Null, next |-> Null]
     ELSE LET i == CHOOSE j \in hits : \A h \in hits : j <= h
          IN [prev |-> StateAtOrNull(i - 1), next |-> StateAtOrNull(i + 1)]

\* ------------------------------------- computeTop3Snapshot, coins row
top3Ids == <<"bitcoin", "ethereum", "solana">>

\* new Map(markets.map((c) => [c.id, c])).get(id): a later entry with the
\* same key replaces an earlier one; 0 when the key is absent
ByIdIndex(arr, id) ==
  LET hits == {i \in 1..Len(arr) : arr[i].id = id}
  IN IF hits = {} THEN 0 ELSE CHOOSE i \in hits : \A j \in hits : i >= j

Top3Entry(c) ==
  [id |-> c.id, name |-> c.name, symbol |-> c.symbol,
   priceUsd |-> safeNumber(c.current_price),
   change24hPct |-> safeNumber(c.price_change_percentage_24h_in_currency),
   change30dPct |-> safeNumber(c.price_change_percentage_30d_in_currency),
   marketCapUsd |-> safeNumber(c.market_cap)]

RECURSIVE Top3From(_, _)
Top3From(arr, k) ==
  IF k > Len(top3Ids) THEN <<>>
  ELSE LET i == ByIdIndex(arr, top3Ids[k])
       IN (IF i = 0 THEN <<>> ELSE <<Top3Entry(arr[i])>>) \o Top3From(arr, k + 1)

\* mutant: the list is filtered by the three ids, in the order of the list
computeTop3SnapshotListOrder(markets) ==
  LET kept == SelectSeq(ArrayOrEmpty(markets),
                        LAMBDA c : c.id \in {top3Ids[k] : k \in 1..Len(top3Ids)})
  IN [i \in 1..Len(kept) |-> Top3Entry(kept[i])]

computeTop3Snapshot(markets) == Top3From(ArrayOrEmpty(markets), 1)

\* String.prototype.toUpperCase on the symbols of the model
ToUpperCase(s) ==
  CASE s = "bitcoin" -> "BITCOIN"
    [] s = "ethereum" -> "ETHEREUM"
    [] s = "solana" -> "SOLANA"
    [] s = "dogecoin" -> "DOGECOIN"
    [] s = "btc" -> "BTC"
    [] s = "usd" -> "USD"
    [] s = "usdt" -> "USDT"
    [] s = "eur" -> "EUR"
    [] OTHER -> s

\* String(c.symbol || "").toUpperCase()
UpperSymbol(sym) == IF sym.k = "str" THEN ToUpperCase(sym.v) ELSE ""

buildCoinsRowFromTop3(top3Snapshot) ==
  [i \in 1..Len(top3Snapshot) |->
     [id |-> top3Snapshot[i].id,
      symbol |-> UpperSymbol(top3Snapshot[i].symbol),
      name |-> top3Snapshot[i].name,
      priceUsd |-> top3Snapshot[i].priceUsd,
      chg24h |-> top3Snapshot[i].change24hPct,
      chg30d |-> top3Snapshot[i].change30dPct]]

\* ------------------------------------------------------ fetchFromCoinGecko
CACHE_TTL_MS == 5 * 60 * 1000
\* markets.slice(0, 50)
Top50 == 50

Requests == 1..MaxReq
CallNames == <<"markets", "trending", "global", "simple">>

\* How one upstream call ends: a success response whose body parses, a
\* non-success response, a rejected fetch (network error), or a success
\* response whose body cannot be read as the code reads it (json() rejects).
Results == {"ok", "notok", "reject", "badjson"}

\* A body is stamped with the request whose call fetched it.
Body(r, json) == [by |-> r, json |-> json]

MarketsBodies ==
  {Arr(<<>>),
   Arr(<<Asset("bitcoin", Num(2), Num(1), Num(10)),
         Asset("dogecoin", Num(-1), Num(3), Undefined)>>)}
TrendingBodies ==
  {[k |-> "object", coins |-> Arr(<<[item |-> [id |-> "pepe", score |-> 0]]>>)]}
GlobalBodies == {GlobalNested(Num(1))}

\* (trendingJson.coins || []).map((c) => ({ id: c.item.id }))
TrendingIds(trendingJson) ==
  LET coins == ArrayOrEmpty(trendingJson.coins)
  IN [i \in 1..Len(coins) |-> [id |-> coins[i].item.id]]

\* markets.slice(0, 50).map((c) => c.id), the ids the simple-price call names
Top50Ids(markets) ==
  LET arr == markets.v
      n == IF Len(arr) < Top50 THEN Len(arr) ELSE Top50
  IN [i \in 1..n |-> arr[i].id]

\* the simple-price body: usd, eur, gbp for each id asked for
SimpleBody(ids) ==
  [k |-> "object",
   prices |-> [i \in {ids[j] : j \in 1..Len(ids)} |->
                 [usd |-> Num(1), eur |-> Num(1), gbp |-> Num(1)]]]

\* mutant: the ok flag of the global response is not tested
FirstGroupErrorSkipsGlobal(rm, rt, rg) ==
  IF "reject" \in {rm, rt, rg} THEN "fetch rejected"
  ELSE IF rm = "notok" THEN "markets request failed"
  ELSE IF rt = "notok" THEN "trending request failed"
  ELSE IF "badjson" \in {rm, rt, rg} THEN "body unreadable"
  ELSE "none"

\* mutant: the ok flag of the trending response is not tested
FirstGroupErrorSkipsTrending(rm, rt, rg) ==
  IF "reject" \in {rm, rt, rg} THEN "fetch rejected"
  ELSE IF rm = "notok" THEN "markets request failed"
  ELSE IF rg = "notok" THEN "global request failed"
  ELSE IF "badjson" \in {rm, rt, rg} THEN "body unreadable"
  ELSE "none"

\* mutant: the trending response is tested before the markets response
FirstGroupErrorTrendingFirst(rm, rt, rg) ==
  IF "reject" \in {rm, rt, rg} THEN "fetch rejected"
  ELSE IF rt = "notok" THEN "trending request failed"
  ELSE IF rm = "notok" THEN "markets request failed"
  ELSE IF rg = "notok" THEN "global request failed"
  ELSE IF "badjson" \in {rm, rt, rg} THEN "body unreadable"
  ELSE "none"

\* The error the first part of fetchFromCoinGecko ends with, "none" if it
\* goes on to the simple-price call.  Promise.all rejects when any fetch
\* rejects; then the ok flags are tested in order; then the bodies are read.
FirstGroupError(rm, rt, rg) ==
  IF "reject" \in {rm, rt, rg} THEN "fetch rejected"
  ELSE IF rm = "notok" THEN "markets request failed"
  ELSE IF rt = "notok" THEN "trending request failed"
  ELSE IF rg = "notok" THEN "global request failed"
  ELSE IF "badjson" \in {rm, rt, rg} THEN "body unreadable"
  ELSE "none"

SimpleError(rs) ==
  CASE rs = "reject" -> "fetch rejected"
    [] rs = "notok" -> "simple price request failed"
    [] rs = "badjson" -> "body unreadable"
    [] OTHER -> "none"

\* const mood = { ...baseMood, adjacent, ghostKey: baseMood.state }
WithAdjacent(baseMood) ==
  [state |-> baseMood.state, label |-> baseMood.label,
   score |-> baseMood.score, metrics |-> baseMood.metrics,
   adjacent |-> computeAdjacentStates(baseMood.state),
   ghostKey |-> baseMood.state]

\* the object fetchFromCoinGecko returns, from its local variables
AssemblePayload(markets, trendingJson, global, converterPrices) ==
  Let(computeTop3Snapshot(markets.json), LAMBDA top3Snapshot :
  Let(computeMood(markets.json, global.json), LAMBDA baseMood :
    [markets |-> markets,
     trending |-> Body(trendingJson.by, TrendingIds(trendingJson.json)),
     global |-> global,
     converterPrices |-> converterPrices,
     mood |-> WithAdjacent(baseMood),
     top3Snapshot |-> top3Snapshot,
     coins |-> buildCoinsRowFromTop3(top3Snapshot)]))

\* ------------------------------------------------------------- state
VARIABLES
  cache,     \* the module-level slot { ts, data }
  clock,     \* what Date.now() returns
  pc,        \* per request: "idle", "awaitGroup", "awaitSimple", "done"
  method,    \* per request: req.method, "" before it arrives
  now,       \* per request: the handler's local now
  seen,      \* per request: the slot as its freshness check read it
  fetchLog,  \* per request: the upstream calls it issued, in order
  failed,    \* per request: some upstream call of its cycle did not succeed
  locals,    \* per request: markets, trendingJson, global of fetchFromCoinGecko
  resp,      \* per request: the response sent, status 0 before it is sent
  assets,    \* pure-function harness: the asset list under construction
  call       \* pure-function harness: the last call made and its result

vars ==
  <<cache, clock, pc, method, now, seen, fetchLog, failed, locals, resp, assets, call>>

NoResponse == [status |-> 0, body |-> Undefined]
NoCall == [fn |-> "none"]
\* the clock advances by half the TTL at a time
TickMs == CACHE_TTL_MS \div 2
MaxClock == MaxTicks * TickMs

InitHandler ==
  /\ cache = [ts |-> 0, data |-> Null]
  /\ clock = 0
  /\ pc = [r \in Requests |-> "idle"]
  /\ method = [r \in Requests |-> ""]
  /\ now = [r \in Requests |-> 0]
  /\ seen = [r \in Requests |-> [ts |-> 0, data |-> Null]]
  /\ fetchLog = [r \in Requests |-> <<>>]
  /\ failed = [r \in Requests |-> FALSE]
  /\ locals = [r \in Requests |-> Undefined]
  /\ resp = [r \in Requests |-> NoResponse]

InitHarness ==
  /\ assets = <<>>
  /\ call = NoCall

Init == InitHandler /\ InitHarness

\* { ...data, source }: the fields of data, and source set to s
WithSource(data, s) ==
  LET fields == IF data = Null THEN {} ELSE DOMAIN data
  IN [f \in fields \cup {"source"} |-> IF f = "source" THEN s ELSE data[f]]

\* mutant: the entry still counts as fresh at an age of exactly the TTL
IsFreshInclusive(c, t) == c.data # Null /\ t - c.ts <= CACHE_TTL_MS

\* cache.data && now - cache.ts < CACHE_TTL_MS
IsFresh(c, t) == c.data # Null /\ t - c.ts < CACHE_TTL_MS

\* requests arrive in the order of their numbers
Arrives(r) == pc[r] = "idle" /\ \A q \in Requests : q < r => pc[q] # "idle"

\* ---------------------------------------------------------------- handler
\* OPTIONS: the preflight answer, before the clock or the cache is read
Preflight(r) ==
  /\ Arrives(r)
  /\ method' = [method EXCEPT ![r] = "OPTIONS"]
  /\ resp' = [resp EXCEPT ![r] = [status |-> 200, body |-> Undefined]]
  /\ pc' = [pc EXCEPT ![r] = "done"]
  /\ UNCHANGED <<cache, clock, now, seen, fetchLog, failed, locals, assets, call>>

\* Any other method, up to the first await: the slot is served if it is
\* fresh; if not, fetchFromCoinGecko issues the three fetches of its
\* Promise.all and the handler is suspended.
HandleGet(r) ==
  /\ Arrives(r)
  /\ method' = [method EXCEPT ![r] = "GET"]
  /\ now' = [now EXCEPT ![r] = clock]
  /\ seen' = [seen EXCEPT ![r] = cache]
  /\ IF IsFresh(cache, clock)
     THEN /\ resp' = [resp EXCEPT ![r] =
               [status |-> 200, body |-> WithSource(cache.data, "cache")]]
          /\ pc' = [pc EXCEPT ![r] = "done"]
          /\ UNCHANGED fetchLog
     ELSE /\ fetchLog' = [fetchLog EXCEPT ![r] = <<"markets", "trending", "global">>]
          /\ pc' = [pc EXCEPT ![r] = "awaitGroup"]
          /\ UNCHANGED resp
  /\ UNCHANGED <<cache, clock, failed, locals, assets, call>>

\* mutant: the fallback serves the entry only while it is fresh
CatchFreshOnly(r) ==
  /\ resp' = [resp EXCEPT ![r] =
       IF cache.data # Null /\ now[r] - cache.ts < CACHE_TTL_MS
       THEN [status |-> 200, body |-> WithSource(cache.data, "stale-cache")]
       ELSE [status |-> 500, body |-> [error |-> "Failed to load market data"]]]
  /\ locals' = [locals EXCEPT ![r] = Undefined]
  /\ pc' = [pc EXCEPT ![r] = "done"]
  /\ UNCHANGED cache

\* mutant: a failure with nothing cached is passed on as a 502
CatchBadGateway(r) ==
  /\ resp' = [resp EXCEPT ![r] =
       IF cache.data # Null
       THEN [status |-> 200, body |-> WithSource(cache.data, "stale-cache")]
       ELSE [status |-> 502, body |-> [error |-> "Failed to load market data"]]]
  /\ locals' = [locals EXCEPT ![r] = Undefined]
  /\ pc' = [pc EXCEPT ![r] = "done"]
  /\ UNCHANGED cache

\* mutant: a failed refresh drops the entry it could not replace
CatchEvicts(r) ==
  /\ resp' = [resp EXCEPT ![r] =
       IF cache.data # Null
       THEN [status |-> 200, body |-> WithSource(cache.data, "stale-cache")]
       ELSE [status |-> 500, body |-> [error |-> "Failed to load market data"]]]
  /\ locals' = [locals EXCEPT ![r] = Undefined]
  /\ pc' = [pc EXCEPT ![r] = "done"]
  /\ cache' = [ts |-> cache.ts, data |-> Null]

\* the catch block: the slot as it is now, tagged stale-cache, else 500
Catch(r) ==
  /\ resp' = [resp EXCEPT ![r] =
       IF cache.data # Null
       THEN [status |-> 200, body |-> WithSource(cache.data, "stale-cache")]
       ELSE [status |-> 500, body |-> [error |-> "Failed to load market data"]]]
  /\ locals' = [locals EXCEPT ![r] = Undefined]
  /\ pc' = [pc EXCEPT ![r] = "done"]
  /\ UNCHANGED cache

\* The three fetches have settled as rm, rt, rg, with bodies m, t, g where
\* they can be read.  On an error the handler's catch block runs; otherwise
\* the bodies are kept and the simple-price call is issued.
GroupSettles(r, rm, rt, rg, m, t, g) ==
  /\ pc[r] = "awaitGroup"
  /\ failed' = [failed EXCEPT ![r] = ({rm, rt, rg} # {"ok"})]
  /\ IF FirstGroupError(rm, rt, rg) # "none"
     THEN /\ Catch(r)
          /\ UNCHANGED fetchLog
     ELSE /\ locals' = [locals EXCEPT ![r] =
               [markets |-> Body(r, m), trendingJson |-> Body(r, t),
                global |-> Body(r, g)]]
          /\ fetchLog' = [fetchLog EXCEPT ![r] = Append(@, "simple")]
          /\ pc' = [pc EXCEPT ![r] = "awaitSimple"]
          /\ UNCHANGED <<cache, resp>>
  /\ UNCHANGED <<clock, method, now, seen, assets, call>>

\* mutant: the entry is stamped with the time of the write
NewSlotStampedAtWrite(r, data) == [ts |-> clock, data |-> data]

\* mutant: an entry that is already there is kept (first writer wins)
NewSlotKeepsFirst(r, data) ==
  IF cache.data # Null THEN cache ELSE [ts |-> now[r], data |-> data]

\* the slot the handler writes after a successful orchestration
NewSlot(r, data) == [ts |-> now[r], data |-> data]

\* The simple-price call has settled as rs.  On an error the catch block
\* runs; otherwise the payload is assembled, stored in the slot and sent.
SimpleSettles(r, rs) ==
  /\ pc[r] = "awaitSimple"
  /\ failed' = [failed EXCEPT ![r] = (@ \/ rs # "ok")]
  /\ IF SimpleError(rs) # "none"
     THEN Catch(r)
     ELSE \E data \in {AssemblePayload(locals[r].markets, locals[r].trendingJson,
                            locals[r].global,
                            Body(r, SimpleBody(Top50Ids(locals[r].markets.json))))} :
             /\ cache' = NewSlot(r, data)
             /\ resp' = [resp EXCEPT ![r] =
                  [status |-> 200, body |-> WithSource(data, "live")]]
             /\ locals' = [locals EXCEPT ![r] = Undefined]
             /\ pc' = [pc EXCEPT ![r] = "done"]
  /\ UNCHANGED <<clock, method, now, seen, fetchLog, assets, call>>

\* time passes
Tick ==
  /\ clock + TickMs <= MaxClock
  /\ clock' = clock + TickMs
  /\ UNCHANGED <<cache, pc, method, now, seen, fetchLog, failed, locals, resp, assets, call>>

Next ==
  \/ \E r \in Requests : Preflight(r)
  \/ \E r \in Requests : HandleGet(r)
  \/ \E r \in Requests : \E rm \in Results, rt \in Results, rg \in Results :
       \E m \in MarketsBodies, t \in TrendingBodies, g \in GlobalBodies :
         GroupSettles(r, rm, rt, rg, m, t, g)
  \/ \E r \in Requests : \E rs \in Results : SimpleSettles(r, rs)
  \/ Tick

Spec == Init /\ [][Next]_vars

\* ------------------------------------------------ pure-function harness
\* computeMood called on asset lists built one entry at a time, with every
\* shape of the global-stats body.
MoodIds == {"bitcoin", "dogecoin"}
Change24hValues == {Num(-2), Num(2)}
Change7dValues == {Undefined, Num(3)}
Change30dValues == {Undefined, Null, Num(-Huge), Num(6), Num(Huge)}
GlobalInputs ==
  {Null, GlobalNested(NonNumeric), GlobalNested(Num(2)), GlobalNested(Num(10)),
   GlobalNested(Num(Huge)), GlobalFlat(Num(-10)), GlobalFlat(Num(-20))}

AddAsset(id, c24, c7, c30) ==
  /\ call = NoCall
  /\ Len(assets) < MaxAssets
  /\ assets' = Append(assets, Asset(id, c24, c7, c30))
  /\ UNCHANGED <<cache, clock, pc, method, now, seen, fetchLog, failed, locals, resp, call>>

\* the list as the caller passes it: the array, or no list at all
MarketsArguments == {Arr(assets)} \cup (IF assets = <<>> THEN {Null, Undefined} ELSE {})

CallComputeMood(markets, globalJson) ==
  /\ call = NoCall
  /\ \E baseMood \in {computeMood(markets, globalJson)} :
       call' = [fn |-> "computeMood", n |-> Len(assets), markets |-> markets.k,
                global |-> globalJson, result |-> baseMood,
                mood |-> WithAdjacent(baseMood)]
  /\ assets' = <<>>
  /\ UNCHANGED <<cache, clock, pc, method, now, seen, fetchLog, failed, locals, resp>>

\* the states computeAdjacentStates is asked about: the five of the order,
\* the state of an empty list, the initial state of computeMood, and others
AdjacentInputs ==
  {states[i] : i \in 1..Len(states)} \cup {"unknown", "uneasy", "", "Side-Eye"}

\* computeAdjacentStates(x.prev) and computeAdjacentStates(x.next) where the
\* neighbour is a state, null where it is null
AdjacentOf(x) == IF x = Null THEN Null ELSE computeAdjacentStates(x.v)

\* computeAdjacentStates called on a state, and then on each neighbour it gave
CallComputeAdjacentStates(state) ==
  /\ call = NoCall
  /\ assets = <<>>
  /\ \E adjacent \in {computeAdjacentStates(state)} :
       call' = [fn |-> "computeAdjacentStates", state |-> state, result |-> adjacent,
                ofPrev |-> AdjacentOf(adjacent.prev),
                ofNext |-> AdjacentOf(adjacent.next)]
  /\ UNCHANGED <<cache, clock, pc, method, now, seen, fetchLog, failed, locals, resp, assets>>

MoodNext ==
  \/ \E id \in MoodIds, c24 \in Change24hValues, c7 \in Change7dValues,
        c30 \in Change30dValues : AddAsset(id, c24, c7, c30)
  \/ \E markets \in MarketsArguments, g \in GlobalInputs : CallComputeMood(markets, g)
  \/ \E state \in AdjacentInputs : CallComputeAdjacentStates(state)

MoodSpec == Init /\ [][MoodNext]_vars

\* ------------------------------------------- harness: computeTop3Snapshot
\* computeTop3Snapshot called on asset lists built one entry at a time; the
\* price of an entry is its position in the list, which tells entries of
\* the same id apart.
ListingIds == {"bitcoin", "ethereum", "solana", "dogecoin"}

AddListing(id) ==
  /\ call = NoCall
  /\ Len(assets) < MaxListing
  /\ assets' = Append(assets,
       [Asset(id, Num(1), Num(1), Num(1)) EXCEPT !.current_price = Num(Len(assets) + 1)])
  /\ UNCHANGED <<cache, clock, pc, method, now, seen, fetchLog, failed, locals, resp, call>>

CallComputeTop3Snapshot(markets) ==
  /\ call = NoCall
  /\ \E top3Snapshot \in {computeTop3Snapshot(markets)} :
       call' = [fn |-> "computeTop3Snapshot", markets |-> markets.k, list |-> assets,
                result |-> top3Snapshot]
  /\ assets' = <<>>
  /\ UNCHANGED <<cache, clock, pc, method, now, seen, fetchLog, failed, locals, resp>>

Top3Next ==
  \/ \E id \in ListingIds : AddListing(id)
  \/ \E markets \in MarketsArguments : CallComputeTop3Snapshot(markets)

Top3Spec == Init /\ [][Top3Next]_vars

\* ------------------------------------------- harness: fetchFromCoinGecko
\* One call of fetchFromCoinGecko, its fetches settling one at a time, and
\* the error it throws.  Promise.all rejects as soon as one fetch rejects and
\* resolves when all three have resolved.
GroupCalls == {"markets", "trending", "global"}

CallFetchFromCoinGecko ==
  /\ call = NoCall
  /\ assets = <<>>
  /\ call' = [fn |-> "fetchFromCoinGecko", pc |-> "awaitGroup",
              settled |-> [c \in GroupCalls |-> "pending"],
              simple |-> "none", error |-> "none"]
  /\ UNCHANGED <<cache, clock, pc, method, now, seen, fetchLog, failed, locals, resp, assets>>

FetchSettles(c, result) ==
  /\ call.fn = "fetchFromCoinGecko"
  /\ call.pc = "awaitGroup"
  /\ call.settled[c] = "pending"
  /\ \E s \in {[call.settled EXCEPT ![c] = result]} :
       \E e \in {FirstGroupError(s.markets, s.trending, s.global)} :
         call' = IF result # "reject" /\ \E d \in GroupCalls : s[d] = "pending"
                 THEN [call EXCEPT !.settled = s]
                 ELSE [call EXCEPT !.settled = s, !.error = e,
                                   !.pc = IF e = "none" THEN "awaitSimple" ELSE "thrown",
                                   !.simple = IF e = "none" THEN "pending" ELSE "none"]
  /\ UNCHANGED <<cache, clock, pc, method, now, seen, fetchLog, failed, locals, resp, assets>>

FetchSimpleSettles(rs) ==
  /\ call.fn = "fetchFromCoinGecko"
  /\ call.pc = "awaitSimple"
  /\ call' = [call EXCEPT !.simple = rs, !.error = SimpleError(rs),
                          !.pc = IF SimpleError(rs) = "none" THEN "returned" ELSE "thrown"]
  /\ UNCHANGED <<cache, clock, pc, method, now, seen, fetchLog, failed, locals, resp, assets>>

FetchNext ==
  \/ CallFetchFromCoinGecko
  \/ \E c \in GroupCalls, result \in Results : FetchSettles(c, result)
  \/ \E rs \in Results : FetchSimpleSettles(rs)

FetchSpec == Init /\ [][FetchNext]_vars

\* ------------------------------------------------ api/coin-tickers.js
\* .slice(0, 6)
SliceLimit == 6

\* what JavaScript takes as true in x && ..., x || ...
Truthy(x) ==
  CASE x.k \in {"undefined", "null", "nan"} -> FALSE
    [] x.k = "str" -> x.v # ""
    [] x.k = "num" -> x.v # 0
    [] OTHER -> TRUE

\* typeof x === "number"
IsNumberType(x) == IsNumberKind(x)

\* s.toUpperCase().includes("USD"), for a string already in upper case
IncludesUSD(s) == s \in {"USD", "USDT", "BUSD"}

\* one entry of json.tickers
Ticker(market, base, target, converted_last, converted_volume) ==
  [market |-> market, base |-> base, target |-> target,
   converted_last |-> converted_last, converted_volume |-> converted_volume]
Named(name) == [k |-> "object", name |-> name]
Converted(usd) == [k |-> "object", usd |-> usd]

\* t.target && t.target.toUpperCase().includes("USD") && t.converted_last &&
\* typeof t.converted_last.usd === "number"
Qualifies(t) ==
  /\ Truthy(t.target)
  /\ IncludesUSD(ToUpperCase(t.target.v))
  /\ Truthy(t.converted_last)
  /\ IsNumberType(t.converted_last.usd)

\* t.market?.name || "Unknown"
ExchangeOf(t) ==
  IF IsNullish(t.market) THEN "Unknown"
  ELSE IF Truthy(t.market.name) THEN t.market.name.v ELSE "Unknown"

\* (x || "").toUpperCase()
UpperOrEmpty(x) == IF Truthy(x) THEN ToUpperCase(x.v) ELSE ""

\* t.converted_volume?.usd || 0
VolumeOf(t) ==
  IF IsNullish(t.converted_volume) THEN Num(0)
  ELSE IF Truthy(t.converted_volume.usd) THEN t.converted_volume.usd ELSE Num(0)

\* the object the map step makes of a ticker
Projected(t) ==
  [exchange |-> ExchangeOf(t),
   pair |-> UpperOrEmpty(t.base) \o "/" \o UpperOrEmpty(t.target),
   price |-> t.converted_last.usd,
   volume |-> VolumeOf(t)]

\* a.volume || 0, as the comparator reads it
SortKey(a) == IF Truthy(a.volume) THEN Ord(a.volume) ELSE 0

\* mutant: the comparator is (a, b) => a.volume - b.volume, ascending
RECURSIVE InsertAscending(_, _)
InsertAscending(x, s) ==
  IF s = <<>> THEN <<x>>
  ELSE IF SortKey(Head(s)) >= SortKey(x) THEN <<x>> \o s
  ELSE <<Head(s)>> \o InsertAscending(x, Tail(s))

\* x put before the first entry of the sorted s that the comparator
\* (a, b) => (b.volume || 0) - (a.volume || 0) does not place before it
RECURSIVE InsertDescending(_, _)
InsertDescending(x, s) ==
  IF s = <<>> THEN <<x>>
  ELSE IF SortKey(Head(s)) <= SortKey(x) THEN <<x>> \o s
  ELSE <<Head(s)>> \o InsertDescending(x, Tail(s))

\* .sort(...): stable, so entries of equal volume keep their order
RECURSIVE SortByVolume(_)
SortByVolume(s) ==
  IF s = <<>> THEN <<>> ELSE InsertDescending(Head(s), SortByVolume(Tail(s)))

\* .slice(0, n)
Slice(s, n) == IF Len(s) <= n THEN s ELSE SubSeq(s, 1, n)

\* (json.tickers || []).filter(...).map(...).sort(...).slice(0, 6)
TickersOf(list) ==
  Let(SelectSeq(list, Qualifies), LAMBDA kept :
    Slice(SortByVolume([i \in 1..Len(kept) |-> Projected(kept[i])]), SliceLimit))

\* The tickers the upstream body lists.  The entry at position p has price p
\* (which tells the entries apart) and comes in one of three forms: a
\* USD-quoted pair with a volume, the same without a volume, or an entry the
\* filter has to drop.
TickerForms == {"usdPair", "noVolume", "dropped"}
Volumes == <<5, 50, -3, 20, 50, 1, 30, 50, 2>>
VolumeAt(p) == Volumes[((p - 1) % Len(Volumes)) + 1]

TickerAt(p, form) ==
  LET market == IF p % 3 = 0 THEN Undefined ELSE Named(Str("Binance"))
      base == IF p % 4 = 0 THEN Undefined ELSE Str("btc")
      target == IF p % 2 = 1 THEN Str("USD") ELSE Str("usdt")
      price == Converted(Num(p))
  IN CASE form = "usdPair" -> Ticker(market, base, target, price, Converted(Num(VolumeAt(p))))
       [] form = "noVolume" ->
            Ticker(market, base, target, price,
                   IF p % 2 = 1 THEN Undefined ELSE Converted(Null))
       [] p % 4 = 1 -> Ticker(market, base, Str("eur"), price, Converted(Num(VolumeAt(p))))
       [] p % 4 = 2 -> Ticker(market, base, Undefined, price, Converted(Num(VolumeAt(p))))
       [] p % 4 = 3 -> Ticker(market, base, target, Undefined, Converted(Num(VolumeAt(p))))
       [] OTHER -> Ticker(market, base, target, Converted(NonNumeric),
                          Converted(Num(VolumeAt(p))))

CoinQueries == {Undefined, Str("ethereum")}
\* how the fetch ends, and the status of the response it resolves to
FetchResults == {"ok", "notok", "reject"}
StatusOf(result) == IF result = "ok" THEN {200} ELSE IF result = "notok" THEN {404, 429} ELSE {0}
\* what cgRes.json() gives: an object with a tickers array, an object without
\* one, the JSON value null, or a rejection (the body is not JSON)
JsonShapes == {"tickers", "noTickers", "null", "unparsable"}

Send(status, body) == <<[status |-> status, body |-> body]>>

\* the catch block of the coin-tickers handler
TickersCatch == Send(500, [error |-> "Failed to fetch CoinGecko"])

\* mutant: the status of the upstream response is not passed on
BadGatewayNoStatus(status) == Send(502, [error |-> "CoinGecko error", status |-> 502])

\* res.status(502).json({ error: "CoinGecko error", status: cgRes.status })
BadGateway(status) == Send(502, [error |-> "CoinGecko error", status |-> status])

\* const coin = req.query.coin || "bitcoin"; the fetch is issued
TickersRequest(query) ==
  /\ call = NoCall
  /\ assets = <<>>
  /\ call' = [fn |-> "coinTickers", pc |-> "awaitFetch",
              coin |-> IF Truthy(query) THEN query.v ELSE "bitcoin",
              fetched |-> "pending", status |-> 0, parsed |-> "pending",
              upstream |-> <<>>,
              sent |-> <<>>]
  /\ UNCHANGED <<cache, clock, pc, method, now, seen, fetchLog, failed, locals, resp, assets>>

\* await fetch(cgUrl) settles; if (!cgRes.ok) the 502 is sent
TickersFetchSettles(result, status) ==
  /\ call.fn = "coinTickers"
  /\ call.pc = "awaitFetch"
  /\ call' = [call EXCEPT
       !.fetched = result,
       !.status = status,
       !.pc = IF result = "ok" THEN "awaitJson" ELSE "done",
       !.sent = CASE result = "reject" -> @ \o TickersCatch
                  [] result = "notok" -> @ \o BadGateway(status)
                  [] OTHER -> @]
  /\ UNCHANGED <<cache, clock, pc, method, now, seen, fetchLog, failed, locals, resp, assets>>

\* the upstream body in transit lists one more ticker
AddTicker(form) ==
  /\ call.fn = "coinTickers"
  /\ call.pc = "awaitJson"
  /\ Len(assets) < MaxTickers
  /\ assets' = Append(assets, TickerAt(Len(assets) + 1, form))
  /\ UNCHANGED <<cache, clock, pc, method, now, seen, fetchLog, failed, locals, resp, call>>

\* await cgRes.json() settles and the rest of the handler runs
TickersJsonSettles(shape) ==
  /\ call.fn = "coinTickers"
  /\ call.pc = "awaitJson"
  /\ shape # "tickers" => assets = <<>>
  /\ \E tickers \in {TickersOf(assets)} :
       call' = [call EXCEPT
         !.parsed = shape,
         !.pc = "done",
         !.upstream = assets,
         !.sent = IF shape \in {"null", "unparsable"}
                  THEN @ \o TickersCatch
                  ELSE @ \o Send(200, [coin |-> call.coin, tickers |-> tickers,
                                       source |-> "live-or-cache"])]
  /\ assets' = <<>>
  /\ UNCHANGED <<cache, clock, pc, method, now, seen, fetchLog, failed, locals, resp>>

TickersNext ==
  \/ \E query \in CoinQueries : TickersRequest(query)
  \/ \E result \in FetchResults : \E status \in StatusOf(result) :
       TickersFetchSettles(result, status)
  \/ \E form \in TickerForms : AddTicker(form)
  \/ \E shape \in JsonShapes : TickersJsonSettles(shape)

TickersSpec == Init /\ [][TickersNext]_vars

\* ------------------------------------------------------------ properties
\* the source tag of a response body, "" if it has none
SourceOf(body) == IF "source" \in DOMAIN body THEN body.source ELSE ""

\* body is { ...data, source: s }: the fields of data unchanged, and source
TaggedCopy(body, data, s) ==
  /\ DOMAIN body = DOMAIN data \cup {"source"}
  /\ body.source = s
  /\ \A f \in DOMAIN data : body[f] = data[f]

\* request r takes its first step as a GET
Starts(r) == pc[r] = "idle" /\ pc'[r] # "idle" /\ method'[r] = "GET"
\* request r is answered in this step after an orchestration that failed
FailsNow(r) == pc[r] \in {"awaitGroup", "awaitSimple"} /\ pc'[r] = "done" /\ failed'[r]
\* request r is answered in this step after all four calls succeeded
SucceedsNow(r) == pc[r] = "awaitSimple" /\ pc'[r] = "done" /\ ~failed'[r]

\* C1: a GET that finds data in the slot less than 5 minutes old is answered
\* 200 with the cached payload plus source "cache", issues no upstream call
\* and leaves the slot as it is; at an age of 5 minutes or more, or with no
\* data, it is not answered from the cache.
C1_FreshHit ==
  [][\A r \in Requests :
       /\ Starts(r) =>
            IF cache.data # Null /\ clock - cache.ts < 5 * 60 * 1000
            THEN /\ resp'[r].status = 200
                 /\ TaggedCopy(resp'[r].body, cache.data, "cache")
                 /\ fetchLog'[r] = <<>>
                 /\ pc'[r] = "done"
                 /\ cache' = cache
            ELSE /\ resp'[r] = NoResponse
                 /\ pc'[r] # "done"
       /\ SourceOf(resp[r].body) = "cache" => fetchLog'[r] = <<>>]_vars

\* a request was answered from a slot written half a TTL before it arrived
C1_Witness ==
  \E r \in Requests :
    /\ SourceOf(resp[r].body) = "cache"
    /\ now[r] - cache.ts = TickMs
    /\ fetchLog[r] = <<>>

\* C2: a GET whose orchestration fails while the slot holds data, of any
\* age, is answered 200 with the slot's payload, source "stale-cache" and
\* no other field changed.
C2_StaleFallback ==
  [][\A r \in Requests :
       (FailsNow(r) /\ cache.data # Null) =>
         /\ resp'[r].status = 200
         /\ TaggedCopy(resp'[r].body, cache.data, "stale-cache")]_vars

\* a failed refresh answered from an entry one TTL old
C2_Witness ==
  \E r \in Requests :
    /\ failed[r]
    /\ SourceOf(resp[r].body) = "stale-cache"
    /\ cache.data # Null
    /\ now[r] - cache.ts >= CACHE_TTL_MS

\* C3: a GET whose orchestration fails while the slot holds no data is
\* answered 500 with body {error: "Failed to load market data"}, and the
\* slot still holds no data.
C3_NoCacheFailure ==
  [][\A r \in Requests :
       (FailsNow(r) /\ cache.data = Null) =>
         /\ resp'[r] = [status |-> 500, body |-> [error |-> "Failed to load market data"]]
         /\ cache'.data = Null]_vars

C3_Witness ==
  \E r \in Requests : failed[r] /\ resp[r].status = 500 /\ cache.data = Null

\* C4: a GET that misses the fresh cache and whose four calls all succeed
\* overwrites the slot with {timestamp: now, data}, now being the clock it
\* read when it started and data the payload it assembled, and is answered
\* 200 with that payload plus source "live".
C4_LiveRefresh ==
  [][\A r \in Requests :
       /\ Starts(r) => now'[r] = clock
       /\ pc[r] # "idle" => now'[r] = now[r]
       /\ SucceedsNow(r) =>
            /\ cache'.ts = now[r]
            /\ cache'.data # Null
            /\ cache'.data.markets = locals[r].markets
            /\ cache'.data.global = locals[r].global
            /\ cache'.data.converterPrices.by = r
            /\ resp'[r].status = 200
            /\ TaggedCopy(resp'[r].body, cache'.data, "live")]_vars

\* a refresh that finished after the clock had moved on from its start
C4_Witness ==
  \E r \in Requests :
    /\ SourceOf(resp[r].body) = "live"
    /\ cache.data.markets.by = r
    /\ cache.ts = now[r]
    /\ clock > now[r]

PayloadFields ==
  {"markets", "trending", "global", "converterPrices", "mood", "top3Snapshot", "coins"}

\* d is a complete payload, all of it from one cycle whose four calls succeeded
FromOneGoodCycle(d) ==
  /\ PayloadFields \subseteq DOMAIN d
  /\ \E r \in Requests :
       /\ ~failed[r]
       /\ fetchLog[r] = CallNames
       /\ d.markets.by = r
       /\ d.trending.by = r
       /\ d.global.by = r
       /\ d.converterPrices.by = r

HasPayload(body) == "markets" \in DOMAIN body

\* C5: the slot holds null or a complete payload whose markets, trending,
\* global and converterPrices come from one cycle in which all four calls
\* succeeded, and so does every payload sent; a cycle in which a call failed
\* wrote nothing to the slot and produced no payload.
C5_AllOrNothing ==
  /\ cache.data = Null \/ FromOneGoodCycle(cache.data)
  /\ \A q \in Requests : HasPayload(resp[q].body) => FromOneGoodCycle(resp[q].body)
  /\ \A r \in Requests :
       failed[r] =>
         /\ cache.data = Null \/ cache.data.markets.by # r
         /\ \A q \in Requests :
              HasPayload(resp[q].body) => resp[q].body.markets.by # r

\* one cycle failed at its simple-price call and another filled the slot
C5_Witness ==
  \E r \in Requests, q \in Requests :
    /\ failed[r]
    /\ fetchLog[r] = CallNames
    /\ pc[r] = "done"
    /\ cache.data # Null
    /\ cache.data.markets.by = q

\* C6: requests are not coalesced: a GET that finds the slot empty or
\* expired issues its own three calls whatever other requests are in
\* flight, and every successful request overwrites the slot with its own
\* payload, so the slot holds the payload of the last successful writer.
C6_NoCoalescing ==
  [][/\ \A r \in Requests :
          /\ (Starts(r) /\ ~(cache.data # Null /\ clock - cache.ts < CACHE_TTL_MS)) =>
               /\ fetchLog'[r] = <<"markets", "trending", "global">>
               /\ pc'[r] = "awaitGroup"
          /\ SucceedsNow(r) =>
               /\ fetchLog[r] = CallNames
               /\ cache'.data.markets.by = r
     /\ cache' # cache => \E r \in Requests : SucceedsNow(r)]_vars

\* two overlapping requests each made all four calls; the one that arrived
\* first wrote last, and the slot holds its payload
C6_Witness ==
  \E r \in Requests, q \in Requests :
    /\ r < q
    /\ SourceOf(resp[r].body) = "live"
    /\ SourceOf(resp[q].body) = "live"
    /\ fetchLog[r] = CallNames
    /\ fetchLog[q] = CallNames
    /\ cache.data.markets.by = r

\* C7: once the slot holds data no step sets it back to null, and once a
\* request has been answered with source "live" no request is answered 500.
C7_NeverEvicted ==
  [][/\ cache.data # Null => cache'.data # Null
     /\ (\E r \in Requests : SourceOf(resp[r].body) = "live") =>
          \A q \in Requests : resp'[q].status = 500 => resp[q].status = 500]_vars

\* after a live answer, a later request failed to refresh the expired entry
\* and was answered from it
C7_Witness ==
  \E r \in Requests, q \in Requests :
    /\ r < q
    /\ SourceOf(resp[r].body) = "live"
    /\ failed[q]
    /\ resp[q].status = 200
    /\ now[q] - now[r] >= CACHE_TTL_MS

\* x is an integer between 0 and 100
IsScore(x) == x.k = "num" /\ x.v % Scale = 0 /\ 0 <= x.v /\ x.v <= 100 * Scale

\* C8: for a non-empty asset list and any global-stats input the score
\* computeMood returns is an integer between 0 and 100.
C8_ScoreInRange ==
  (call.fn = "computeMood" /\ call.n > 0) => IsScore(call.result.score)

\* C9: for an empty or missing asset list computeMood returns state
\* "unknown", label "Unknown", score null and empty metrics, whatever the
\* global-stats input is.
C9_EmptyListUnknown ==
  (call.fn = "computeMood" /\ call.n = 0) =>
    /\ call.result.state = "unknown"
    /\ call.result.label = "Unknown"
    /\ call.result.score = Null
    /\ call.result.metrics = EmptyObject
    /\ DOMAIN call.result = {"state", "label", "score", "metrics"}

\* computeMood was called with no list at all and a malformed global body
C9_Witness ==
  /\ call.fn = "computeMood"
  /\ call.n = 0
  /\ call.markets = "null"
  /\ call.global = GlobalNested(NonNumeric)
  /\ call.result.state = "unknown"

FivePairs ==
  {<<"crumbs-everywhere", "Crumbs Everywhere">>,
   <<"clutching-cookies", "Clutching Cookies">>,
   <<"side-eye", "Side-Eye">>,
   <<"steady-bite", "Steady Bite">>,
   <<"snack-mode", "Snack Mode">>}
FiveStates == {p[1] : p \in FivePairs}
NullOrState(x) == x = Null \/ (x.k = "str" /\ x.v \in FiveStates)

\* C10 as stated: in every mood produced the (state, label) pair is one of
\* the five fixed pairs and adjacent.prev, adjacent.next are null or one of
\* the five states.
C10_FivePairsOnly ==
  call.fn = "computeMood" =>
    /\ <<call.mood.state, call.mood.label>> \in FivePairs
    /\ NullOrState(call.mood.adjacent.prev)
    /\ NullOrState(call.mood.adjacent.next)

\* C10 as amended: the pair is one of the five fixed pairs when the asset
\* list is non-empty and ("unknown", "Unknown"), with both neighbours null,
\* when it is empty or missing; adjacent.prev and adjacent.next are null or
\* one of the five states.
C10_FivePairsOrUnknown ==
  call.fn = "computeMood" =>
    /\ IF call.n = 0
       THEN /\ <<call.mood.state, call.mood.label>> = <<"unknown", "Unknown">>
            /\ call.mood.adjacent = [prev |-> Null, next |-> Null]
       ELSE <<call.mood.state, call.mood.label>> \in FivePairs
    /\ NullOrState(call.mood.adjacent.prev)
    /\ NullOrState(call.mood.adjacent.next)

\* a mood in the middle of the order, with a neighbour on each side
C10_Witness ==
  /\ call.fn = "computeMood"
  /\ call.n > 0
  /\ call.mood.state = "side-eye"
  /\ call.mood.adjacent = [prev |-> Str("clutching-cookies"), next |-> Str("steady-bite")]

\* position of a state in the fixed order, 0 if it is not in it
OrderIndex(s) ==
  CASE s = "crumbs-everywhere" -> 1
    [] s = "clutching-cookies" -> 2
    [] s = "side-eye" -> 3
    [] s = "steady-bite" -> 4
    [] s = "snack-mode" -> 5
    [] OTHER -> 0

\* C11: over the order crumbs-everywhere, clutching-cookies, side-eye,
\* steady-bite, snack-mode: for an interior state s, next(prev(s)) = s and
\* prev(next(s)) = s; the first state has prev null and next not null, the
\* last has next null and prev not null; a state outside the order has both
\* null.
C11_AdjacentAlgebra ==
  call.fn = "computeAdjacentStates" =>
    LET i == OrderIndex(call.state)
    IN /\ i \in 2..4 =>
            /\ call.result.prev # Null /\ call.result.next # Null
            /\ call.ofPrev.next = Str(call.state)
            /\ call.ofNext.prev = Str(call.state)
       /\ i = 1 => call.result.prev = Null /\ call.result.next = Str("clutching-cookies")
       /\ i = 5 => call.result.next = Null /\ call.result.prev = Str("steady-bite")
       /\ i = 0 => call.result = [prev |-> Null, next |-> Null]

\* the neighbours of an interior state, each leading back to it
C11_Witness ==
  /\ call.fn = "computeAdjacentStates"
  /\ call.state = "steady-bite"
  /\ call.result = [prev |-> Str("side-eye"), next |-> Str("snack-mode")]
  /\ call.ofPrev.next = Str("steady-bite")
  /\ call.ofNext.prev = Str("steady-bite")

\* position of an id in the order bitcoin, ethereum, solana, 0 for any other
Top3Rank(id) ==
  CASE id = "bitcoin" -> 1 [] id = "ethereum" -> 2 [] id = "solana" -> 3 [] OTHER -> 0

\* C12: computeTop3Snapshot returns at most 3 entries, each with an id among
\* bitcoin, ethereum, solana, no id twice, an id being in the output exactly
\* when it is in the list, in the relative order bitcoin, ethereum, solana
\* whatever the order of the list.
C12_Top3Shape ==
  call.fn = "computeTop3Snapshot" =>
    LET out == call.result
        list == call.list
    IN /\ Len(out) <= 3
       /\ \A i \in 1..Len(out) : out[i].id \in {"bitcoin", "ethereum", "solana"}
       /\ \A i \in 1..Len(out), j \in 1..Len(out) : i < j => out[i].id # out[j].id
       /\ \A id \in {"bitcoin", "ethereum", "solana"} :
            (\E i \in 1..Len(out) : out[i].id = id)
              <=> (\E j \in 1..Len(list) : list[j].id = id)
       /\ \A i \in 1..Len(out), j \in 1..Len(out) :
            i < j => Top3Rank(out[i].id) < Top3Rank(out[j].id)

\* a list of four that starts with solana and names it twice, with the
\* other two ids after it: three entries come out, bitcoin first
C12_Witness ==
  /\ call.fn = "computeTop3Snapshot"
  /\ Len(call.list) = 4
  /\ call.list[1].id = "solana"
  /\ call.list[4].id = "solana"
  /\ Len(call.result) = 3
  /\ call.result[1].id = "bitcoin"
  /\ call.result[3].id = "solana"

\* C16: when the list holds more than one entry with the same id among
\* bitcoin, ethereum, solana, the entry computeTop3Snapshot projects is the
\* first of them in list order.
C16_FirstMatchWins ==
  call.fn = "computeTop3Snapshot" =>
    \A i \in 1..Len(call.result) :
      LET same == {j \in 1..Len(call.list) : call.list[j].id = call.result[i].id}
          first == CHOOSE j \in same : \A h \in same : j <= h
      IN call.result[i].priceUsd = call.list[first].current_price

\* the tickers of the 200 response of a finished coin-tickers request
SentTickers == call.sent[1].body.tickers
Answered200 == call.fn = "coinTickers" /\ call.pc = "done" /\ call.sent[1].status = 200

\* upstream ticker t is a USD-quoted pair (in either letter case) with a
\* numeric converted USD price
UsdQuoted(t) ==
  /\ t.target \in {Str("USD"), Str("usdt")}
  /\ t.converted_last # Undefined
  /\ t.converted_last.usd.k = "num"
\* its volume, a missing one counted as 0
VolumeOrZero(t) ==
  IF t.converted_volume = Undefined \/ t.converted_volume.usd.k # "num"
  THEN 0 ELSE t.converted_volume.usd.v

\* C13: the 200 response of /coin-tickers holds at most 6 tickers, sorted by
\* volume descending with a missing volume counted as 0, each made from an
\* upstream ticker whose target contains USD and whose converted USD price is
\* a number; when more than 6 qualify, the 6 kept are those of highest volume.
C13_TopSixByVolume ==
  Answered200 =>
    LET out == SentTickers
        up == call.upstream
        qualifying == {j \in 1..Len(up) : UsdQuoted(up[j])}
        kept == {j \in qualifying : \E i \in 1..Len(out) : out[i].price = up[j].converted_last.usd}
    IN /\ Len(out) <= 6
       /\ Len(out) = IF Cardinality(qualifying) > 6 THEN 6 ELSE Cardinality(qualifying)
       /\ \A i \in 1..(Len(out) - 1) : out[i].volume.v >= out[i + 1].volume.v
       /\ \A i \in 1..Len(out) :
            /\ out[i].volume.k = "num"
            /\ \E j \in qualifying :
                 /\ out[i].price = up[j].converted_last.usd
                 /\ out[i].volume.v = VolumeOrZero(up[j])
       /\ Cardinality(kept) = Len(out)
       /\ \A j \in qualifying \ kept :
            \A h \in kept : VolumeOrZero(up[h]) >= VolumeOrZero(up[j])

\* seven USD-quoted tickers came in, out of volume order: six went out, the
\* two of volume 50 first, the one of negative volume left out
C13_Witness ==
  /\ Answered200
  /\ Len(call.upstream) = 7
  /\ \A j \in 1..7 : UsdQuoted(call.upstream[j])
  /\ Len(SentTickers) = 6
  /\ SentTickers[1].volume = Num(50)
  /\ SentTickers[2].volume = Num(50)
  /\ SentTickers[6].volume = Num(1)
  /\ \A i \in 1..6 : SentTickers[i].price # Num(3)

\* C14: a coin-tickers request whose upstream response is a non-success is
\* answered 502 {error: "CoinGecko error", status: the upstream status}; one
\* that fails otherwise (fetch rejected, body not readable) is answered 500
\* {error: "Failed to fetch CoinGecko"}; each request gets exactly one
\* response, and a 200 only if the upstream call succeeded and its body parsed.
C14_TickerErrors ==
  call.fn = "coinTickers" =>
    /\ Len(call.sent) = IF call.pc = "done" THEN 1 ELSE 0
    /\ call.pc = "done" =>
         LET r == call.sent[1]
         IN /\ call.fetched = "notok" =>
                 r = [status |-> 502,
                      body |-> [error |-> "CoinGecko error", status |-> call.status]]
            /\ (call.fetched = "reject" \/ call.parsed \in {"unparsable", "null"}) =>
                 r = [status |-> 500, body |-> [error |-> "Failed to fetch CoinGecko"]]
            /\ r.status = 200 =>
                 call.fetched = "ok" /\ call.parsed \in {"tickers", "noTickers"}
            /\ r.status \in {200, 500, 502}

\* the upstream answered 429 and the request was answered 502 naming it
C14_Witness ==
  /\ call.fn = "coinTickers"
  /\ call.pc = "done"
  /\ call.fetched = "notok"
  /\ call.status = 429
  /\ call.sent = <<[status |-> 502, body |-> [error |-> "CoinGecko error", status |-> 429]]>>

\* C15: in one orchestration cycle the markets, trending and global calls
\* are all issued before any of them is awaited; the simple-price call is
\* issued only after all three returned a success response and their bodies
\* were read; if any of the three fails or is a non-success, the cycle never
\* issues the simple-price call.
C15_CallOrder ==
  [][\A r \in Requests :
       /\ (Starts(r) /\ pc'[r] # "done") =>
            /\ fetchLog'[r] = <<"markets", "trending", "global">>
            /\ pc'[r] = "awaitGroup"
       /\ (pc[r] = "awaitGroup" /\ pc'[r] # "awaitGroup") =>
            IF failed'[r]
            THEN fetchLog'[r] = <<"markets", "trending", "global">> /\ pc'[r] = "done"
            ELSE /\ fetchLog'[r] = <<"markets", "trending", "global", "simple">>
                 /\ pc'[r] = "awaitSimple"
                 /\ locals'[r].markets.by = r
                 /\ locals'[r].trendingJson.by = r
                 /\ locals'[r].global.by = r
       /\ pc[r] \in {"awaitSimple", "done"} => fetchLog'[r] = fetchLog[r]
       /\ fetchLog'[r] # fetchLog[r] =>
            \/ Starts(r)
            \/ pc[r] = "awaitGroup" /\ ~failed'[r]]_vars

\* one cycle has read its three bodies and issued the simple-price call,
\* another ended at a failed first group with three calls issued
C15_Witness ==
  \E r \in Requests, q \in Requests :
    /\ pc[r] = "awaitSimple"
    /\ fetchLog[r] = <<"markets", "trending", "global", "simple">>
    /\ locals[r].markets.by = r
    /\ pc[q] = "done"
    /\ failed[q]
    /\ fetchLog[q] = <<"markets", "trending", "global">>

\* the score of the last computeMood call is a number, and at least lo
ScoreAtLeast(lo) == call.result.score.k = "num" /\ call.result.score.v >= lo * Scale

StateAndLabel == <<call.result.state, call.result.label>>

\* C17: for a non-empty asset list the state and label computeMood returns
\* follow from the score alone: 75 and above snack-mode / Snack Mode, 60 to
\* 74 steady-bite / Steady Bite, 45 to 59 side-eye / Side-Eye, 30 to 44
\* clutching-cookies / Clutching Cookies, anything else crumbs-everywhere /
\* Crumbs Everywhere; no other state, "uneasy" included, is returned.
C17_StateThresholds ==
  (call.fn = "computeMood" /\ call.n > 0) =>
    /\ ScoreAtLeast(75) => StateAndLabel = <<"snack-mode", "Snack Mode">>
    /\ (ScoreAtLeast(60) /\ ~ScoreAtLeast(75)) =>
         StateAndLabel = <<"steady-bite", "Steady Bite">>
    /\ (ScoreAtLeast(45) /\ ~ScoreAtLeast(60)) => StateAndLabel = <<"side-eye", "Side-Eye">>
    /\ (ScoreAtLeast(30) /\ ~ScoreAtLeast(45)) =>
         StateAndLabel = <<"clutching-cookies", "Clutching Cookies">>
    /\ ~ScoreAtLeast(30) => StateAndLabel = <<"crumbs-everywhere", "Crumbs Everywhere">>
    /\ call.result.state # "uneasy"

\* a score on a threshold: 60 is steady-bite
C17_Witness ==
  /\ call.fn = "computeMood"
  /\ call.n > 0
  /\ call.result.score = Num(60)
  /\ call.result.state = "steady-bite"
  /\ call.result.label = "Steady Bite"

ErrorNames ==
  [markets |-> "markets request failed", trending |-> "trending request failed",
   global |-> "global request failed", simple |-> "simple price request failed"]

\* the first of markets, trending, global that returned a non-success
\* response, "simple" if only the simple-price call did
FirstNonSuccess ==
  IF call.settled.markets = "notok" THEN "markets"
  ELSE IF call.settled.trending = "notok" THEN "trending"
  ELSE IF call.settled.global = "notok" THEN "global"
  ELSE "simple"

SomeNonSuccess ==
  call.simple = "notok" \/ \E c \in GroupCalls : call.settled[c] = "notok"

\* C18 as stated: a cycle in which an upstream call returns a non-success
\* response fails with the error that names the failed call, the first in
\* the order markets, trending, global when several of these are
\* non-success; the simple-price error arises only when the first three all
\* succeeded.
C18_ErrorNamesCall ==
  (call.fn = "fetchFromCoinGecko" /\ call.pc \in {"thrown", "returned"}) =>
    /\ SomeNonSuccess =>
         call.pc = "thrown" /\ call.error = ErrorNames[FirstNonSuccess]
    /\ call.error = "simple price request failed" =>
         \A c \in GroupCalls : call.settled[c] = "ok"

\* C18 as amended: the same, for a cycle in which no fetch of the first
\* group is rejected; a cycle in which one is rejected fails with that
\* rejection, whatever the other responses are.
C18_ErrorNamesCallUnlessRejected ==
  (call.fn = "fetchFromCoinGecko" /\ call.pc \in {"thrown", "returned"}) =>
    /\ (SomeNonSuccess /\ \A c \in GroupCalls : call.settled[c] # "reject") =>
         call.pc = "thrown" /\ call.error = ErrorNames[FirstNonSuccess]
    /\ (\E c \in GroupCalls : call.settled[c] = "reject") =>
         call.pc = "thrown" /\ call.error = "fetch rejected"
    /\ call.error = "simple price request failed" =>
         \A c \in GroupCalls : call.settled[c] = "ok"

\* markets and trending both came back non-success and the error names markets
C18_Witness ==
  /\ call.fn = "fetchFromCoinGecko"
  /\ call.pc = "thrown"
  /\ call.settled.markets = "notok"
  /\ call.settled.trending = "notok"
  /\ call.error = "markets request failed"

\* C19: under any interleaving of GET requests the timestamp of the slot
\* never decreases: every write stores a timestamp at least as large as the
\* one it replaces.
C19_TimestampNeverDecreases == [][cache'.ts >= cache.ts]_vars

\* C20: a response tagged "stale-cache" carries the payload that was in the
\* slot when its request made the freshness check, which is then at least 5
\* minutes old at the request's start; a payload another request wrote
\* after this request started is never served as "stale-cache".
C20_StaleIsWhatWasSeen ==
  \A r \in Requests :
    SourceOf(resp[r].body) = "stale-cache" =>
      /\ seen[r].data # Null
      /\ TaggedCopy(resp[r].body, seen[r].data, "stale-cache")
      /\ now[r] - seen[r].ts >= 5 * 60 * 1000

====
